---- MODULE Spec2Model ----
(***************************************************************************)
(* A model of the raycaster of src/main.cpp: the frame loop of main, the   *)
(* movement update handleMovement, the collision check, the DDA ray cast   *)
(* rayCast and the shading of renderWallsAndFloor.                         *)
(*                                                                         *)
(* Numbers.  The program computes in doubles.  The model computes exactly  *)
(* in the field Q(sqrt 2): a number is <<a, b, d>>, standing for           *)
(* (a + b*sqrt(2)) / d with d > 0 and gcd(a, b, d) = 1.  Every position,   *)
(* distance and displacement the model reaches lies in that field, because *)
(* cos and sin are evaluated on whole eighth-turns (see Cos).              *)
(*                                                                         *)
(* Angles.  An angle is an integer count of 1/AngleDen radians, so that    *)
(* playerAngle, the field of view and each column's ray angle are exact.   *)
(* Times, positions and distances are numbers of Q(sqrt 2), in seconds and *)
(* in grid units.                                                          *)
(***************************************************************************)
EXTENDS Integers, Sequences, FiniteSets

(***************************************************************************)
(* Integer helpers.                                                        *)
(***************************************************************************)
Abs(n) == IF n < 0 THEN -n ELSE n

RECURSIVE GCD(_, _)
GCD(m, n) == IF n = 0 THEN Abs(m) ELSE GCD(n, m % Abs(n))

RECURSIVE ISqrtIn(_, _, _)
\* The largest r in lo..hi with r*r <= n (lo*lo <= n is given).
ISqrtIn(n, lo, hi) ==
  IF lo >= hi THEN lo
  ELSE LET mid == (lo + hi + 1) \div 2
       IN  IF mid * mid <= n THEN ISqrtIn(n, mid, hi) ELSE ISqrtIn(n, lo, mid - 1)

\* floor(sqrt(n)) for n >= 0; the model's integers stay below 46340^2.
ISqrt(n) == ISqrtIn(n, 0, IF n < 46340 THEN n ELSE 46340)

(***************************************************************************)
(* Exact arithmetic in Q(sqrt 2).                                          *)
(***************************************************************************)
QNorm(a, b, d) ==
  IF d = 1 THEN <<a, b, d>>
  ELSE LET g == GCD(GCD(a, b), d)
           s == IF d < 0 THEN -1 ELSE 1
       IN  <<(s * a) \div g, (s * b) \div g, (s * d) \div g>>

QInt(n) == <<n, 0, 1>>
QRat(n, d) == QNorm(n, 0, d)
Zero == QInt(0)
One == QInt(1)

QNeg(x) == <<-x[1], -x[2], x[3]>>
QAdd(x, y) == QNorm(x[1] * y[3] + y[1] * x[3], x[2] * y[3] + y[2] * x[3], x[3] * y[3])
QSub(x, y) == QAdd(x, QNeg(y))
QMul(x, y) == QNorm(x[1] * y[1] + 2 * x[2] * y[2], x[1] * y[2] + x[2] * y[1], x[3] * y[3])

RECURSIVE GtSqrt2(_, _)
\* a > b*sqrt(2), for a >= 0 and b >= 0, without squaring: with r = a - b in
\* (0, b), a > b*sqrt 2 iff r*(sqrt 2 + 1) > b iff not (b - r > r*sqrt 2).
GtSqrt2(a, b) ==
  IF b = 0 THEN a > 0
  ELSE IF a <= b THEN FALSE
  ELSE IF a >= 2 * b THEN TRUE
  ELSE ~GtSqrt2(2 * b - a, a - b)

\* The sign of a + b*sqrt(2): sqrt(2) is irrational, so a = -b*sqrt 2 only at 0.
QSign(x) ==
  LET a == x[1]
      b == x[2]
  IN  IF a = 0 /\ b = 0 THEN 0
      ELSE IF a >= 0 /\ b >= 0 THEN 1
      ELSE IF a <= 0 /\ b <= 0 THEN -1
      ELSE IF a > 0 THEN (IF GtSqrt2(a, -b) THEN 1 ELSE -1)
      ELSE (IF GtSqrt2(-a, b) THEN -1 ELSE 1)

\* The sign of x - y is that of its numerator over the common denominator.
QCompare(x, y) == QSign(<<x[1] * y[3] - y[1] * x[3], x[2] * y[3] - y[2] * x[3], 1>>)
QLess(x, y) == QCompare(x, y) < 0
QLeq(x, y) == QCompare(x, y) <= 0
QIsZero(x) == x[1] = 0 /\ x[2] = 0
QAbs(x) == IF QSign(x) < 0 THEN QNeg(x) ELSE x

\* 1/x for x # 0: (a - b*sqrt 2) * d / (a*a - 2*b*b).
QInv(x) == QNorm(x[1] * x[3], -(x[2] * x[3]), x[1] * x[1] - 2 * x[2] * x[2])
QDiv(x, y) == QMul(x, QInv(y))

RECURSIVE FloorUp(_, _)
\* The largest m >= n with m <= b*sqrt(2) (n <= b*sqrt 2 is given).
FloorUp(n, b) == IF GtSqrt2(n + 1, b) THEN n ELSE FloorUp(n + 1, b)

\* floor(b*sqrt 2) for b >= 0, from the lower estimate b * 1393/985 (1393/985 is
\* a convergent of sqrt 2 from below).
FloorSqrt2(b) == FloorUp((b \div 985) * 1393 + ((b % 985) * 1393) \div 985, b)

\* floor((a + b*sqrt 2)/d): floor(a + r) = a + floor(r), and
\* floor(a - r) = a - floor(r) - 1 for r = |b|*sqrt 2, no integer unless b = 0.
QFloor(x) ==
  LET a == x[1]
      b == x[2]
      top == IF b >= 0 THEN a + FloorSqrt2(b) ELSE a - FloorSqrt2(-b) - 1
  IN  top \div x[3]

\* A C++ conversion of a double to int: truncation toward zero.
QTrunc(x) == IF QSign(x) >= 0 THEN QFloor(x) ELSE -QFloor(QNeg(x))

\* sqrt(x) for x >= 0 whose root lies in Q(sqrt 2) with a rational square:
\* x = n/d gives sqrt(n*d)/d, which is s/d when n*d = s*s and
\* t*sqrt(2)/d when n*d = 2*t*t.  No other radicand arises in the model; one
\* that did would stop the evaluation here instead of being rounded.
QSqrt(x) ==
  LET n == x[1] * x[3]
      s == ISqrt(n)
      t == ISqrt(n \div 2)
  IN  IF x[2] = 0 /\ s * s = n THEN QNorm(s, 0, x[3])
      ELSE IF x[2] = 0 /\ 2 * t * t = n THEN QNorm(0, t, x[3])
      ELSE CHOOSE r \in {} : TRUE

(***************************************************************************)
(* The program's constants (main.cpp lines 14-39).                         *)
(***************************************************************************)
screenWidth == 800
screenHeight == 600
mapWidth == 16
mapHeight == 16

\* An angle is a whole number of 1/AngleDen radians: with four units per
\* column the ray angle of every column is a whole number of units.
AngleDen == 4 * screenWidth

\* Radians (a rational) to angle units.
AngleUnits(q) == (q[1] * AngleDen) \div q[3]

fieldOfView == AngleUnits(QRat(3, 4))
depth == QInt(16)
speed == QRat(3, 2)
SPRINT_MULTIPLIER == QRat(5, 2)
rotationSpeed == QInt(2)
fogDistance == QInt(8)

\* The start pose.
startX == QInt(8)
startY == QRat(21, 2)
startAngle == 0

(***************************************************************************)
(* The map: the wstring built at lines 285-301, row-major, '#' a wall.     *)
(***************************************************************************)
H == "#"
o == "."

map ==
     <<H, H, H, H, H, H, H, H, H, H, H, H, H, H, H, H>>
  \o <<H, o, o, o, o, o, o, o, o, H, H, H, o, o, o, H>>
  \o <<H, o, o, o, H, o, o, o, o, H, H, H, o, o, o, H>>
  \o <<H, o, o, o, H, o, o, o, o, o, o, o, o, o, o, H>>
  \o <<H, o, o, o, H, H, H, H, H, o, o, H, H, o, o, H>>
  \o <<H, o, o, o, o, o, o, H, o, o, o, o, H, o, o, H>>
  \o <<H, o, o, o, o, o, o, H, o, o, o, o, H, o, o, H>>
  \o <<H, o, o, o, o, o, o, H, o, o, o, o, H, o, o, H>>
  \o <<H, H, H, o, o, o, o, H, H, o, o, H, H, o, o, H>>
  \o <<H, o, o, o, o, o, o, o, o, o, o, o, o, o, o, H>>
  \o <<H, o, o, o, o, o, o, o, o, o, o, o, o, o, o, H>>
  \o <<H, o, o, o, o, o, o, o, H, o, o, o, o, o, o, H>>
  \o <<H, o, o, o, o, o, o, o, H, o, o, o, o, o, o, H>>
  \o <<H, o, o, o, o, H, H, H, H, H, H, o, o, o, o, H>>
  \o <<H, o, o, o, o, o, o, o, o, o, H, o, o, o, o, H>>
  \o <<H, H, H, H, H, H, H, H, H, H, H, H, H, H, H, H>>

\* What a read outside the string can return: a wall character or any other.
UBChars == {"#", "?"}

\* map[idx] (and map.c_str()[idx]), idx counted from 0 as in the program.  The
\* character one past the end is the string's terminator; any other index
\* outside the string is undefined behaviour and reads as ub.
MapRead(idx, ub) ==
  IF idx >= 0 /\ idx < Len(map) THEN map[idx + 1]
  ELSE IF idx = Len(map) THEN "NUL"
  ELSE ub

\* The index the program computes for a cell.
MapIndex(col, row) == row * mapWidth + col

\* What the read of index idx can return: one character inside the string (and
\* at its terminator), any outside.
ReadOutcomes(idx) == IF idx >= 0 /\ idx <= Len(map) THEN {"?"} ELSE UBChars

(***************************************************************************)
(* cos and sin.  The angle is rounded to the nearest whole eighth-turn     *)
(* (pi taken as 3.1416) and the exact value there, which lies in           *)
(* Q(sqrt 2), is returned; cos^2 + sin^2 = 1 holds exactly.                *)
(***************************************************************************)
Pi == (31416 * AngleDen) \div 10000

EighthTurn(a) == (8 * a + Pi) \div (2 * Pi)

CosTable ==
  << One, <<0, 1, 2>>, Zero, <<0, -1, 2>>, QInt(-1), <<0, -1, 2>>, Zero, <<0, 1, 2>> >>

CosTurn(k) == CosTable[(k % 8) + 1]
SinTurn(k) == CosTurn(k - 2)

Cos(a) == CosTurn(EighthTurn(a))
Sin(a) == SinTurn(EighthTurn(a))

(***************************************************************************)
(* handleMovement (lines 160-206).  keys is the set of scancodes held; the *)
(* result is the new position and heading, with the displacement added and *)
(* the speed used.  The four direction keys read playerAngle before the    *)
(* rotation keys change it.                                                *)
(***************************************************************************)
\* SHIFT is held when either shift key is (line 164).
Scancodes == {"W", "S", "A", "D", "LEFT", "RIGHT", "SHIFT"}

\* Lines 164-166.
CurrentSpeed(keys, moveSpeed) ==
  IF "SHIFT" \in keys
  THEN QMul(moveSpeed, SPRINT_MULTIPLIER)
  ELSE moveSpeed

\* Lines 168-186: the sum of the held direction keys' contributions.
RawMove(keys, pa, currentSpeed, dt) ==
  LET c == QMul(QMul(Cos(pa), currentSpeed), dt)
      s == QMul(QMul(Sin(pa), currentSpeed), dt)
      w == IF "W" \in keys THEN <<c, s>> ELSE <<Zero, Zero>>
      b == IF "S" \in keys THEN <<QNeg(c), QNeg(s)>> ELSE <<Zero, Zero>>
      r == IF "D" \in keys THEN <<QNeg(s), c>> ELSE <<Zero, Zero>>
      l == IF "A" \in keys THEN <<s, QNeg(c)>> ELSE <<Zero, Zero>>
  IN  << QAdd(QAdd(QAdd(w[1], b[1]), r[1]), l[1]),
         QAdd(QAdd(QAdd(w[2], b[2]), r[2]), l[2]) >>

\* handleMovement without the normalisation of lines 194-201.  C7 does not
\* hold of it.
NormalizeSkipped(m, currentSpeed, dt) == m

\* Lines 194-201: the vector scaled to length currentSpeed * dt.
Normalize(m, currentSpeed, dt) ==
  LET length == QSqrt(QAdd(QMul(m[1], m[1]), QMul(m[2], m[2])))
  IN  IF QSign(length) > 0
      THEN << QMul(QDiv(m[1], length), QMul(currentSpeed, dt)),
              QMul(QDiv(m[2], length), QMul(currentSpeed, dt)) >>
      ELSE m

\* Lines 187-192.
Rotate(keys, pa, dt) ==
  LET turn == AngleUnits(QMul(rotationSpeed, dt))
      a1 == IF "LEFT" \in keys THEN pa - turn ELSE pa
  IN  IF "RIGHT" \in keys THEN a1 + turn ELSE a1

handleMovement(keys, px, py, pa, moveSpeed, dt) ==
  LET currentSpeed == CurrentSpeed(keys, moveSpeed)
      move == Normalize(RawMove(keys, pa, currentSpeed, dt), currentSpeed, dt)
  IN  [ x |-> QAdd(px, move[1]),
        y |-> QAdd(py, move[2]),
        angle |-> Rotate(keys, pa, dt),
        moveX |-> move[1],
        moveY |-> move[2],
        currentSpeed |-> currentSpeed ]

(***************************************************************************)
(* rayCast (lines 103-157).                                                *)
(*                                                                         *)
(* The step distances deltaDist and sideDist may hold the sentinel 1e30,   *)
(* which no integer of the model can.  Such a number is a pair <<h, f>>    *)
(* standing for h * 1e30 + f, with h and f in Q(sqrt 2).  Pairs are        *)
(* compared by h first: every f of the model is below 1e3 and every        *)
(* non-zero difference of two h above 1e-20, so that order is the order of *)
(* the values.                                                             *)
(***************************************************************************)
Sentinel == <<One, Zero>>
Plain(q) == <<Zero, q>>
BigScale(q, B) == <<QMul(q, B[1]), QMul(q, B[2])>>
BigAdd(B, C) == <<QAdd(B[1], C[1]), QAdd(B[2], C[2])>>
BigLess(B, C) == IF B[1] # C[1] THEN QLess(B[1], C[1]) ELSE QLess(B[2], C[2])

\* Line 104.
rayAngle(x, pa) == (pa - fieldOfView \div 2) + (x * fieldOfView) \div screenWidth

\* DeltaDist without the sentinel of lines 115-116: a zero component gets a
\* zero step distance.  C4 does not hold of it.
DeltaDistNoSentinel(rayDir) ==
  IF QIsZero(rayDir) THEN <<Zero, Zero>> ELSE <<Zero, QAbs(QInv(rayDir))>>

\* Lines 115-116.
DeltaDist(rayDir) == IF QIsZero(rayDir) THEN Sentinel ELSE Plain(QAbs(QInv(rayDir)))

\* Lines 125-138, for one axis: the step and the distance to the first grid line.
StepOf(rayDir) == IF QSign(rayDir) < 0 THEN -1 ELSE 1

SideDist(rayDir, p, cell, deltaDist) ==
  IF QSign(rayDir) < 0
  THEN BigScale(QSub(p, QInt(cell)), deltaDist)
  ELSE BigScale(QSub(QAdd(QInt(cell), One), p), deltaDist)

\* The most steps of the loop the model follows (see ddaLoop).
DDALimit == 48

\* The test of line 150 on the wrong character.  C3 does not hold of it.
HitTestEmpty(ch) == IF ch = "." THEN 1 ELSE 0

\* Line 150: the cell read is a wall.
HitTest(ch) == IF ch = "#" THEN 1 ELSE 0

\* One pass of the loop body, lines 141-150: s is the loop's variables, r the
\* values fixed before the loop.
ddaStep(s, r) ==
  LET t == IF BigLess(s.sideDistX, s.sideDistY)
           THEN [s EXCEPT !.sideDistX = BigAdd(s.sideDistX, r.deltaDistX),
                          !.mapX = s.mapX + r.stepX,
                          !.side = 0]
           ELSE [s EXCEPT !.sideDistY = BigAdd(s.sideDistY, r.deltaDistY),
                          !.mapY = s.mapY + r.stepY,
                          !.side = 1]
  IN  [t EXCEPT !.hit = HitTest(MapRead(MapIndex(t.mapX, t.mapY), r.ub)),
                !.cells = Append(s.cells, <<t.mapX, t.mapY>>)]

\* The loop of lines 140-151.  The program's loop has no bound; the model
\* follows it for DDALimit passes and reports hit = 0 when it is still running.
RECURSIVE ddaLoop(_, _, _)
ddaLoop(s, r, fuel) ==
  IF s.hit # 0 \/ fuel = 0 THEN s ELSE ddaLoop(ddaStep(s, r), r, fuel - 1)

\* The value of a division by zero: an infinity (or a NaN) of the doubles.
Infinite == <<1, 0, 0>>

\* Lines 153-154 without the (1 - step) / 2 term.  C5 does not hold of it.
PerpWallDistNoFace(s, r, px, py) ==
  LET num == IF s.side = 0 THEN QSub(QInt(s.mapX), px) ELSE QSub(QInt(s.mapY), py)
      den == IF s.side = 0 THEN r.rayDirX ELSE r.rayDirY
  IN  IF QIsZero(den) THEN Infinite ELSE QDiv(num, den)

\* Lines 153-154.
PerpWallDist(s, r, px, py) ==
  LET num == IF s.side = 0
             THEN QAdd(QSub(QInt(s.mapX), px), QInt((1 - r.stepX) \div 2))
             ELSE QAdd(QSub(QInt(s.mapY), py), QInt((1 - r.stepY) \div 2))
      den == IF s.side = 0 THEN r.rayDirX ELSE r.rayDirY
  IN  IF QIsZero(den) THEN Infinite ELSE QDiv(num, den)

\* The cast along the direction (rayDirX, rayDirY) from (px, py).
castAlong(rayDirX, rayDirY, px, py, ub) ==
  LET mapX == QTrunc(px)
      mapY == QTrunc(py)
      deltaDistX == DeltaDist(rayDirX)
      deltaDistY == DeltaDist(rayDirY)
      r == [ rayDirX |-> rayDirX, rayDirY |-> rayDirY,
             deltaDistX |-> deltaDistX, deltaDistY |-> deltaDistY,
             stepX |-> StepOf(rayDirX), stepY |-> StepOf(rayDirY), ub |-> ub ]
      s0 == [ mapX |-> mapX, mapY |-> mapY,
              sideDistX |-> SideDist(rayDirX, px, mapX, deltaDistX),
              sideDistY |-> SideDist(rayDirY, py, mapY, deltaDistY),
              side |-> -1, hit |-> 0, cells |-> << >> ]
      s == ddaLoop(s0, r, DDALimit)
  IN  [ hit |-> s.hit, side |-> s.side, mapX |-> s.mapX, mapY |-> s.mapY,
        cells |-> s.cells, stepX |-> r.stepX, stepY |-> r.stepY,
        rayDirX |-> rayDirX, rayDirY |-> rayDirY,
        sideDistX |-> s.sideDistX, sideDistY |-> s.sideDistY,
        dist |-> IF s.hit # 0 THEN PerpWallDist(s, r, px, py) ELSE Infinite ]

\* The cast whose direction is the eighth-turn k.
castTurn(k, px, py, ub) == castAlong(CosTurn(k), SinTurn(k), px, py, ub)

rayCast(x, px, py, pa, ub) == castTurn(EighthTurn(rayAngle(x, pa)), px, py, ub)

(***************************************************************************)
(* The projection of line 345-346 and the shade of renderWallsAndFloor     *)
(* (lines 70-88).                                                          *)
(***************************************************************************)
\* An int the program computes: a value, or the result of an operation the
\* language leaves undefined.
Defined(n) == [defined |-> TRUE, value |-> n]
Undefined == [defined |-> FALSE, value |-> 0]

\* Line 345: (screenHeight / 2.0f) - screenHeight / d, converted to int.  A
\* zero d divides by zero and converts an infinity: undefined.
nCeiling(d) ==
  IF QIsZero(d) \/ d = Infinite THEN Undefined
  ELSE Defined(QTrunc(QSub(QRat(screenHeight, 2), QDiv(QInt(screenHeight), d))))

\* Line 346.
nFloor(ceiling) ==
  IF ceiling.defined THEN Defined(screenHeight - ceiling.value) ELSE Undefined

\* Lines 72-73 without line 75.  C9 does not hold of it.
WallShadeNoBoundary(distanceToWall, isBoundary) ==
  LET raw == QTrunc(QMul(QInt(255), QSub(One, QDiv(distanceToWall, depth))))
  IN  IF raw < 0 THEN 0 ELSE raw

\* Lines 72-75.
WallShade(distanceToWall, isBoundary) ==
  LET raw == QTrunc(QMul(QInt(255), QSub(One, QDiv(distanceToWall, depth))))
      clamped == IF raw < 0 THEN 0 ELSE raw
  IN  IF isBoundary THEN 0 ELSE clamped

\* Lines 79-80.
FogIntensity(distanceToWall) ==
  LET raw == IF QLess(fogDistance, distanceToWall)
             THEN QDiv(QSub(distanceToWall, fogDistance), QSub(depth, fogDistance))
             ELSE Zero
  IN  IF QLess(One, raw) THEN One ELSE raw

\* Line 87: the grey level renderWallsAndFloor draws the wall with.
foggedWallShade(distanceToWall, isBoundary) ==
  QTrunc(QMul(QInt(WallShade(distanceToWall, isBoundary)),
              QSub(One, FogIntensity(distanceToWall))))

(***************************************************************************)
(* Cells of the grid, as the claims speak of them.                         *)
(***************************************************************************)
InGrid(col, row) == col >= 0 /\ col < mapWidth /\ row >= 0 /\ row < mapHeight
IsWall(col, row) == InGrid(col, row) /\ map[row * mapWidth + col + 1] = "#"
IsEmpty(col, row) == InGrid(col, row) /\ map[row * mapWidth + col + 1] # "#"

\* The cell that contains the point (x, y) is a wall.
InWallCell(x, y) == IsWall(QFloor(x), QFloor(y))

(***************************************************************************)
(* The state.                                                              *)
(*   pc            where the program is: "start" before the check of line  *)
(*                 303, "loop" at the test of the while of line 313,       *)
(*                 "render" after the collision check of a tick, "done"    *)
(*                 after the loop, "exit" after the return of line 305,    *)
(*                 "hung" in a ray cast that does not return; and, where   *)
(*                 one function is applied to chosen inputs, "ray", "move" *)
(*                 or "shade" before it and "cast", "moved" or "shaded"    *)
(*                 after it                                                *)
(*   running       the flag of line 312                                    *)
(*   polledQuit    whether a tick has polled a quit or an escape key-down  *)
(*   playerX, playerY, playerAngle   the pose (lines 22-24)                *)
(*   frames        the ticks begun                                         *)
(*   before, cand  the position before the tick's movement and the one     *)
(*                 handleMovement proposed                                 *)
(*   lookups       the <<col, row>> of every map read of the last step     *)
(*   columns       what the last frame drew, one record per distinct ray   *)
(*   cast, moved, shade   the result of the function applied last, in the  *)
(*                 specifications that apply one function to chosen inputs *)
(***************************************************************************)
VARIABLES pc, running, polledQuit, playerX, playerY, playerAngle, frames,
          before, cand, lookups, columns, cast, moved, shade

vars == <<pc, running, polledQuit, playerX, playerY, playerAngle, frames,
          before, cand, lookups, columns, cast, moved, shade>>

pose == <<playerX, playerY, playerAngle>>
results == <<cast, moved, shade>>

\* The ticks a run has at most: the quit arrives in tick MaxTicks at the latest.
MaxTicks == 1

\* The elapsed times of a tick, in seconds.
ElapsedTimes == {One, QInt(5)}

Init ==
  /\ pc = "start"
  /\ running = TRUE
  /\ polledQuit = FALSE
  /\ playerX = startX
  /\ playerY = startY
  /\ playerAngle = startAngle
  /\ frames = 0
  /\ before = <<startX, startY>>
  /\ cand = <<startX, startY>>
  /\ lookups = {}
  /\ columns = {}
  /\ cast = << >>
  /\ moved = << >>
  /\ shade = << >>

\* Lines 303-306: the program refuses to start inside a wall.
Startup ==
  /\ pc = "start"
  /\ LET col == QTrunc(playerX)
         row == QTrunc(playerY)
     IN  \E ub \in ReadOutcomes(MapIndex(col, row)) :
           /\ lookups' = {<<col, row>>}
           /\ pc' = IF MapRead(MapIndex(col, row), ub) = "#" THEN "exit" ELSE "loop"
  /\ UNCHANGED <<running, polledQuit, pose, frames, before, cand, columns, results>>

\* A loop that does not test the flag.  C8 does not hold of it.
LoopForever == TRUE

\* Line 313: the test of the while loop.
LoopCond == running

\* Lines 332-336: the collision check on the position handleMovement left, with
\* the heading handleMovement left.
Collide(x, y, pa, dt, ub) ==
  IF MapRead(MapIndex(QTrunc(x), QTrunc(y)), ub) = "#"
  THEN << QSub(x, QMul(QMul(Cos(pa), speed), dt)),
          QSub(y, QMul(QMul(Sin(pa), speed), dt)) >>
  ELSE <<x, y>>

\* Lines 313-336: a tick begins; the events are polled (quit: a quit or an
\* escape key-down among them), the keys are read, the player moves and the
\* collision check runs.  KeySets and Times are the inputs a tick can have and
\* maxTicks the tick in which the quit arrives at the latest.
UpdateWith(KeySets, Times, maxTicks) ==
  /\ pc = "loop"
  /\ LoopCond
  /\ \E keys \in KeySets, dt \in Times :
       LET m == handleMovement(keys, playerX, playerY, playerAngle, speed, dt)
           col == QTrunc(m.x)
           row == QTrunc(m.y)
       IN  \E quit \in (IF frames + 1 >= maxTicks THEN {TRUE} ELSE BOOLEAN),
              ub \in ReadOutcomes(MapIndex(col, row)) :
             LET p == Collide(m.x, m.y, m.angle, dt, ub)
             IN  /\ running' = IF quit THEN FALSE ELSE running
                 /\ polledQuit' = (polledQuit \/ quit)
                 /\ playerX' = p[1]
                 /\ playerY' = p[2]
                 /\ playerAngle' = m.angle
                 /\ before' = <<playerX, playerY>>
                 /\ cand' = <<m.x, m.y>>
                 /\ lookups' = {<<col, row>>}
  /\ frames' = frames + 1
  /\ pc' = "render"
  /\ UNCHANGED <<columns, results>>

Update == UpdateWith(SUBSET Scancodes, ElapsedTimes, MaxTicks)

\* The eighth-turns the rays of the columns 0 .. screenWidth-1 have: the ray
\* angle grows with the column, by less than an eighth-turn from one column to
\* the next, so they are the range from the first column's to the last's.
ColumnTurns(pa) ==
  EighthTurn(rayAngle(0, pa)) .. EighthTurn(rayAngle(screenWidth - 1, pa))

\* What the reads of a frame's casts can return: the casts are taken with "?"
\* read outside the string, and read nothing else when none of them reads there.
CastOutcomes(casts) ==
  IF \A c \in casts : \A i \in 1..Len(c.cells) :
       ReadOutcomes(MapIndex(c.cells[i][1], c.cells[i][2])) = {"?"}
  THEN {"?"}
  ELSE UBChars

\* Lines 343-348: one ray per column; each distance is the divisor of the
\* projection and the argument of renderWallsAndFloor.
Column(c) ==
  [ dist |-> c.dist,
    divisor |-> c.dist,
    ceiling |-> nCeiling(c.dist),
    floor |-> nFloor(nCeiling(c.dist)),
    shade |-> foggedWallShade(c.dist, FALSE) ]

Render ==
  /\ pc = "render"
  /\ \E plain \in {{castTurn(k, playerX, playerY, "?") : k \in ColumnTurns(playerAngle)}} :
       \E ub \in CastOutcomes(plain) :
         \E casts \in {IF ub = "?" THEN plain
                       ELSE {castTurn(k, playerX, playerY, ub) : k \in ColumnTurns(playerAngle)}} :
           LET returned == \A c \in casts : c.hit # 0
           IN  /\ lookups' = UNION {{c.cells[i] : i \in 1..Len(c.cells)} : c \in casts}
               /\ columns' = IF returned THEN {Column(c) : c \in casts} ELSE {}
               /\ pc' = IF returned THEN "loop" ELSE "hung"
  /\ UNCHANGED <<running, polledQuit, pose, frames, before, cand, results>>

\* Lines 374-388: the loop is left.
Exit ==
  /\ pc = "loop"
  /\ ~LoopCond
  /\ pc' = "done"
  /\ UNCHANGED <<running, polledQuit, pose, frames, before, cand, lookups, columns, results>>

Next == Startup \/ Update \/ Render \/ Exit

Spec == Init /\ [][Next]_vars

(***************************************************************************)
(* The frame loop over longer runs: LoopTicks ticks of one second, with    *)
(* the keys of LoopKeys.                                                   *)
(***************************************************************************)
LoopTicks == 3
LoopKeys == {{}, {"W"}, {"S", "SHIFT"}, {"A", "LEFT"}, {"D", "RIGHT"}, {"W", "D", "SHIFT"}}

LoopUpdate == UpdateWith(LoopKeys, {One}, LoopTicks)

LoopNext == Startup \/ LoopUpdate \/ Render \/ Exit

SpecLoop == Init /\ [][LoopNext]_vars

(***************************************************************************)
(* rayCast applied to chosen inputs: the player anywhere in an Empty cell  *)
(* (on its corner, on an edge, at its centre, at an irrational offset),    *)
(* the heading on each eighth-turn, the first, the middle and the last     *)
(* column; and the body of rayCast after lines 106-107 applied to the      *)
(* oblique directions of RayDirections.  cast is the record castAlong      *)
(* returns.                                                                *)
(***************************************************************************)
Offsets == {Zero, QRat(1, 2), <<-1, 1, 1>>}
Coordinates(n) == {QAdd(QInt(c), f) : c \in 0..(n - 1), f \in Offsets}
RayHeadings == {(k * Pi) \div 4 : k \in 0..7}
RayColumns == {0, screenWidth \div 2, screenWidth - 1}

\* Unit vectors off the eighth-turns: (+-3/5, +-4/5) and (+-4/5, +-3/5).
RayDirections ==
  {<<QRat(sx * c[1], 5), QRat(sy * c[2], 5)>> :
     sx \in {-1, 1}, sy \in {-1, 1}, c \in {<<3, 4>>, <<4, 3>>}}

Idle ==
  /\ running = TRUE
  /\ polledQuit = FALSE
  /\ frames = 0
  /\ lookups = {}
  /\ columns = {}
  /\ cast = << >>
  /\ moved = << >>
  /\ shade = << >>

RayInit ==
  /\ pc = "ray"
  /\ playerX \in Coordinates(mapWidth)
  /\ playerY \in Coordinates(mapHeight)
  /\ IsEmpty(QFloor(playerX), QFloor(playerY))
  /\ playerAngle \in RayHeadings
  /\ before = <<playerX, playerY>>
  /\ cand = <<playerX, playerY>>
  /\ Idle

\* rayCast(x, map) for a column x.
CastRay ==
  /\ pc = "ray"
  /\ \E x \in RayColumns :
       \E plain \in {rayCast(x, playerX, playerY, playerAngle, "?")} :
         \E ub \in CastOutcomes({plain}) :
           \E r \in {IF ub = "?" THEN plain
                     ELSE rayCast(x, playerX, playerY, playerAngle, ub)} :
             /\ cast' = r
             /\ lookups' = {r.cells[i] : i \in 1..Len(r.cells)}
  /\ pc' = "cast"
  /\ UNCHANGED <<running, polledQuit, pose, frames, before, cand, columns, moved, shade>>

\* Lines 109-156 for a ray direction given as a vector.
CastAlong ==
  /\ pc = "ray"
  /\ \E d \in RayDirections :
       \E plain \in {castAlong(d[1], d[2], playerX, playerY, "?")} :
         \E ub \in CastOutcomes({plain}) :
           \E r \in {IF ub = "?" THEN plain
                     ELSE castAlong(d[1], d[2], playerX, playerY, ub)} :
             /\ cast' = r
             /\ lookups' = {r.cells[i] : i \in 1..Len(r.cells)}
  /\ pc' = "cast"
  /\ UNCHANGED <<running, polledQuit, pose, frames, before, cand, columns, moved, shade>>

RayNext == CastRay \/ CastAlong

SpecRay == RayInit /\ [][RayNext]_vars

(***************************************************************************)
(* handleMovement applied to chosen inputs: every set of held keys, each   *)
(* elapsed time, the heading on each eighth-turn.                          *)
(***************************************************************************)
MoveHeadings == {(k * Pi) \div 4 : k \in 0..7}
MoveTimes == ElapsedTimes \cup {QRat(3, 5), QRat(1, 60)}

MoveInit ==
  /\ pc = "move"
  /\ playerX = startX
  /\ playerY = startY
  /\ playerAngle \in MoveHeadings
  /\ before = <<playerX, playerY>>
  /\ cand = <<playerX, playerY>>
  /\ Idle

Move ==
  /\ pc = "move"
  /\ \E keys \in SUBSET Scancodes, dt \in MoveTimes :
       LET m == handleMovement(keys, playerX, playerY, playerAngle, speed, dt)
       IN  /\ playerX' = m.x
           /\ playerY' = m.y
           /\ playerAngle' = m.angle
           /\ cand' = <<m.x, m.y>>
           /\ moved' = [keys |-> keys, dt |-> dt, moveX |-> m.moveX, moveY |-> m.moveY,
                        currentSpeed |-> m.currentSpeed, heading |-> playerAngle]
  /\ before' = <<playerX, playerY>>
  /\ pc' = "moved"
  /\ UNCHANGED <<running, polledQuit, frames, lookups, columns, cast, shade>>

MoveNext == Move

SpecMove == MoveInit /\ [][MoveNext]_vars

(***************************************************************************)
(* The shade of renderWallsAndFloor applied to chosen distances, one after *)
(* another: the quarters from 0 to MaxQuarters/4, with and without         *)
(* isBoundary.  shade is the last call: its arguments and its grey level.  *)
(***************************************************************************)
MaxQuarters == 80
Distances == {QRat(n, 4) : n \in 0..MaxQuarters}

Shaded(d, isBoundary) ==
  [distanceToWall |-> d, isBoundary |-> isBoundary,
   foggedWallShade |-> foggedWallShade(d, isBoundary)]

ShadeInit ==
  /\ pc = "shade"
  /\ running = TRUE
  /\ polledQuit = FALSE
  /\ playerX = startX
  /\ playerY = startY
  /\ playerAngle = startAngle
  /\ frames = 0
  /\ before = <<startX, startY>>
  /\ cand = <<startX, startY>>
  /\ lookups = {}
  /\ columns = {}
  /\ cast = << >>
  /\ moved = << >>
  /\ shade = << >>

Shade ==
  /\ pc \in {"shade", "shaded"}
  /\ \E d \in Distances, b \in BOOLEAN : shade' = Shaded(d, b)
  /\ pc' = "shaded"
  /\ UNCHANGED <<running, polledQuit, pose, frames, before, cand, lookups, columns,
                 cast, moved>>

ShadeNext == Shade

SpecShade == ShadeInit /\ [][ShadeNext]_vars

(***************************************************************************)
(* C1: after the movement-and-collision step of any tick, the cell that    *)
(* contains the player is not a Wall cell.                                 *)
(***************************************************************************)
C1_NeverInWall == frames > 0 => ~InWallCell(playerX, playerY)

(***************************************************************************)
(* C2: collision is all-or-nothing: when the position handleMovement       *)
(* proposed lies in a Wall cell, the position after the tick is the        *)
(* position before it.                                                     *)
(***************************************************************************)
C2_AllOrNothing ==
  (frames > 0 /\ InWallCell(cand[1], cand[2])) => <<playerX, playerY>> = before

(***************************************************************************)
(* C6: the projection never divides by a wall distance that is not         *)
(* strictly positive.                                                      *)
(***************************************************************************)
C6_DivisorPositive == \A c \in columns : QSign(c.divisor) > 0

(***************************************************************************)
(* C10: every map read has its column in 0..mapWidth-1 and its row in      *)
(* 0..mapHeight-1 (and so its index in 0..mapWidth*mapHeight-1).           *)
(***************************************************************************)
C10_LookupsInGrid ==
  \A c \in lookups :
    /\ InGrid(c[1], c[2])
    /\ MapIndex(c[1], c[2]) >= 0
    /\ MapIndex(c[1], c[2]) < mapWidth * mapHeight

(***************************************************************************)
(* C3: from any position inside an Empty cell and for any ray direction,   *)
(* the DDA loop of rayCast ends (within mapWidth + mapHeight passes),      *)
(* every cell it enters lies inside the grid, and the cell it stops at is  *)
(* the first Wall cell among the cells entered.                            *)
(***************************************************************************)
C3_DDAStopsAtFirstWall ==
  pc = "cast" =>
    /\ cast.hit # 0
    /\ Len(cast.cells) >= 1
    /\ Len(cast.cells) <= mapWidth + mapHeight
    /\ \A i \in 1..Len(cast.cells) :
         /\ InGrid(cast.cells[i][1], cast.cells[i][2])
         /\ IsWall(cast.cells[i][1], cast.cells[i][2]) <=> (i = Len(cast.cells))
    /\ <<cast.mapX, cast.mapY>> = cast.cells[Len(cast.cells)]

\* An oblique ray that crosses eight cells or more before its wall.
C3_Witness ==
  /\ pc = "cast"
  /\ cast.hit # 0
  /\ ~QIsZero(cast.rayDirX)
  /\ ~QIsZero(cast.rayDirY)
  /\ Len(cast.cells) >= 8

\* The ray has a zero component.
AxisParallel(r) == QIsZero(r.rayDirX) \/ QIsZero(r.rayDirY)

\* The player stands on the near face of the Wall cell the ray hit.
OnNearFace(r) ==
  IF r.side = 0
  THEN r.stepX = -1 /\ playerX = QInt(r.mapX + 1)
  ELSE r.stepY = -1 /\ playerY = QInt(r.mapY + 1)

\* An axis-parallel ray returns, and the axis of its zero component never
\* advances; no division by zero occurs (the distance is a number).
AxisRayReturns(r) ==
  /\ r.hit # 0
  /\ r.dist # Infinite
  /\ QIsZero(r.rayDirX) =>
       /\ r.side = 1
       /\ \A i \in 1..Len(r.cells) : r.cells[i][1] = QTrunc(playerX)
       /\ r.sideDistX[1] # Zero
  /\ QIsZero(r.rayDirY) =>
       /\ r.side = 0
       /\ \A i \in 1..Len(r.cells) : r.cells[i][2] = QTrunc(playerY)
       /\ r.sideDistY[1] # Zero

(***************************************************************************)
(* C4, as the program has it: for every axis-parallel ray from a position  *)
(* inside an Empty cell, rayCast returns a finite distance that is never   *)
(* negative, and zero exactly when the player stands on the near face of   *)
(* the Wall cell hit; the axis of the zero component never advances and no *)
(* division by zero occurs.                                                *)
(***************************************************************************)
C4_AxisRayFiniteNonNegative ==
  (pc = "cast" /\ AxisParallel(cast)) =>
    /\ AxisRayReturns(cast)
    /\ QSign(cast.dist) >= 0
    /\ QIsZero(cast.dist) <=> OnNearFace(cast)

\* A ray straight north from a position on the grid line under a Wall cell.
C4_Witness ==
  /\ pc = "cast"
  /\ QIsZero(cast.rayDirX)
  /\ cast.stepY = -1
  /\ cast.hit # 0
  /\ QIsZero(cast.dist)

(***************************************************************************)
(* C4, as stated: for every axis-parallel ray from a position inside an    *)
(* Empty cell, rayCast returns a finite, strictly positive distance, the   *)
(* axis of the zero component never advances and no division by zero       *)
(* occurs.                                                                 *)
(***************************************************************************)
C4_AxisRayStrictlyPositive ==
  (pc = "cast" /\ AxisParallel(cast)) =>
    /\ AxisRayReturns(cast)
    /\ QSign(cast.dist) > 0

\* The nearest Wall cell from the cell (col, row) in the direction (dx, dy),
\* found by walking the map.
RECURSIVE NearestWall(_, _, _, _)
NearestWall(col, row, dx, dy) ==
  IF IsWall(col + dx, row + dy) THEN <<col + dx, row + dy>>
  ELSE NearestWall(col + dx, row + dy, dx, dy)

\* The distance from the coordinate p to the near face of the Wall cell whose
\* coordinate on that axis is w, n cells away from the player's cell c: for a
\* ray toward greater coordinates n - (p - c), toward lesser n - (c + 1 - p).
ToNearFace(p, c, w, d) ==
  IF d > 0
  THEN QSub(QInt(w - c), QSub(p, QInt(c)))
  ELSE QSub(QInt(c - w), QSub(QInt(c + 1), p))

AxisDistance(r) ==
  LET col == QFloor(playerX)
      row == QFloor(playerY)
  IN  IF QIsZero(r.rayDirY)
      THEN ToNearFace(playerX, col, NearestWall(col, row, r.stepX, 0)[1], r.stepX)
      ELSE ToNearFace(playerY, row, NearestWall(col, row, 0, r.stepY)[2], r.stepY)

(***************************************************************************)
(* C5: a ray in one of the four axis directions from a position inside an  *)
(* Empty cell returns the distance from the player's coordinate to the     *)
(* near face of the nearest Wall cell in that direction (n cells away:     *)
(* n minus the player's offset in its cell); from (8.0, 10.5) the ray of   *)
(* angle 0 returns 7.                                                      *)
(***************************************************************************)
C5_AxisRayDistance ==
  (pc = "cast" /\ AxisParallel(cast)) =>
    /\ cast.dist = AxisDistance(cast)
    /\ (playerX = startX /\ playerY = startY /\ cast.rayDirX = One) =>
         cast.dist = QInt(7)

\* The ray east from the start position.
C5_Witness ==
  /\ pc = "cast"
  /\ playerX = startX
  /\ playerY = startY
  /\ playerAngle = 0
  /\ cast.rayDirX = One
  /\ cast.rayDirY = Zero
  /\ cast.cells[Len(cast.cells)] = <<15, 10>>
  /\ cast.dist = QInt(7)

\* The tick's direction keys do not cancel.
NetInput(keys) == (("W" \in keys) # ("S" \in keys)) \/ (("A" \in keys) # ("D" \in keys))

(***************************************************************************)
(* C7: when the direction keys held do not cancel, the displacement        *)
(* handleMovement adds has length exactly currentSpeed * elapsedTime, with *)
(* currentSpeed 1.5, times the sprint multiplier when shift is held;       *)
(* forward alone for one second without sprint moves the player 1.5 units  *)
(* along the heading vector.                                               *)
(***************************************************************************)
C7_DisplacementMagnitude ==
  pc = "moved" =>
    LET expected == IF "SHIFT" \in moved.keys
                    THEN QMul(QRat(3, 2), SPRINT_MULTIPLIER)
                    ELSE QRat(3, 2)
        reach == QMul(expected, moved.dt)
    IN  /\ moved.currentSpeed = expected
        /\ playerX = QAdd(before[1], moved.moveX)
        /\ playerY = QAdd(before[2], moved.moveY)
        /\ NetInput(moved.keys) =>
             QAdd(QMul(moved.moveX, moved.moveX), QMul(moved.moveY, moved.moveY))
               = QMul(reach, reach)
        /\ (moved.keys = {"W"} /\ moved.dt = One) =>
             /\ playerX = QAdd(before[1], QMul(QRat(3, 2), Cos(moved.heading)))
             /\ playerY = QAdd(before[2], QMul(QRat(3, 2), Sin(moved.heading)))

\* Forward and strafe together for one second: (3*sqrt(2)/4, 3*sqrt(2)/4).
C7_Witness ==
  /\ pc = "moved"
  /\ moved.keys = {"W", "D"}
  /\ moved.dt = One
  /\ moved.heading = 0
  /\ moved.moveX = <<0, 3, 4>>
  /\ moved.moveY = <<0, 3, 4>>

(***************************************************************************)
(* C8: the loop is Running (running true) before its first tick; a tick    *)
(* that polls a quit leaves it Terminated (running false), Terminated is   *)
(* terminal, and after it no tick begins: the tick count and the pose stay *)
(* as they are, the only steps left are the frame of the tick that polled  *)
(* the quit and the exit of the loop, and nothing follows the exit.        *)
(***************************************************************************)
C8_QuitTerminates ==
  /\ [](frames = 0 => running)
  /\ [](polledQuit <=> ~running)
  /\ [][ /\ ~running => (~running' /\ frames' = frames /\ pose' = pose)
         /\ (~running /\ pc = "loop") =>
              (pc' = "done" /\ lookups' = lookups /\ columns' = columns)
         /\ pc # "done" ]_vars

\* The quit polled in the second tick, the loop then left.
C8_Witness == pc = "done" /\ polledQuit /\ ~running /\ frames = 2

(***************************************************************************)
(* C9: the fogged wall brightness does not increase when the distance      *)
(* grows, is 0 at every distance from the maximum depth 16 on, and is 0 at *)
(* any distance when the hit is flagged isBoundary.                        *)
(***************************************************************************)
C9_ShadeNonIncreasing ==
  /\ [][ (pc = "shaded"
           /\ shade'.isBoundary = shade.isBoundary
           /\ QLeq(shade.distanceToWall, shade'.distanceToWall))
         => shade'.foggedWallShade <= shade.foggedWallShade ]_vars
  /\ [](pc = "shaded" =>
         /\ QLeq(QInt(16), shade.distanceToWall) => shade.foggedWallShade = 0
         /\ shade.isBoundary => shade.foggedWallShade = 0
         /\ shade.foggedWallShade >= 0 /\ shade.foggedWallShade <= 255)

\* Inside the fog, before the maximum depth: 255 * (1 - 12/16) = 63, half fogged.
C9_Witness ==
  /\ pc = "shaded"
  /\ shade.distanceToWall = QInt(12)
  /\ ~shade.isBoundary
  /\ shade.foggedWallShade = 31

====
